---- MODULE Spec2Model ----
(***************************************************************************)
(* PNGme: the PNG chunk codec (chunk_type.rs, chunk.rs), the container the *)
(* commands use (png.rs, not among the sources: modelled from the          *)
(* specification) and the four commands of main.rs over a file system.     *)
(*                                                                         *)
(* A byte is a number in 0..255, a byte buffer a sequence of bytes, a Rust *)
(* string a sequence of Unicode code points (its bytes are its UTF-8       *)
(* encoding).                                                              *)
(***************************************************************************)
EXTENDS Integers, Sequences, FiniteSets, TLC

VARIABLES
    op,     \* the operation applied last
    arg,    \* its input
    ret,    \* what it returned (kind = "Ok", an error kind, or "panic")
    png,    \* the container the operation worked on, after it
    files   \* the file system: path -> contents (a byte buffer)

vars == <<op, arg, ret, png, files>>

---------------------------------------------------------------------------
(* Bytes, words and strings                                                *)

\* A u32 is held as its two 16-bit halves, [hi, lo]: the value hi * 2^16 + lo
Half == 65536

\* `n as u32` of a usize n (below 2^31 here)
as_u32(n) == [hi |-> (n \div Half) % Half, lo |-> n % Half]

\* Bit i of a
Bit(a, i) == (a \div (2 ^ i)) % 2

\* a & b on u8
BitAnd(a, b) ==
    Bit(a, 0) * Bit(b, 0) + 2 * Bit(a, 1) * Bit(b, 1) + 4 * Bit(a, 2) * Bit(b, 2)
    + 8 * Bit(a, 3) * Bit(b, 3) + 16 * Bit(a, 4) * Bit(b, 4) + 32 * Bit(a, 5) * Bit(b, 5)
    + 64 * Bit(a, 6) * Bit(b, 6) + 128 * Bit(a, 7) * Bit(b, 7)

\* a ^ b on one bit
Xor1(x, y) == (x + y) % 2

\* a ^ b on 4 bits
Xor4(a, b) ==
    Xor1(Bit(a, 0), Bit(b, 0)) + 2 * Xor1(Bit(a, 1), Bit(b, 1))
    + 4 * Xor1(Bit(a, 2), Bit(b, 2)) + 8 * Xor1(Bit(a, 3), Bit(b, 3))

\* Xor4, computed once: entry 16 * a + b
Xor4Table == CHOOSE t \in {[n \in 0..255 |-> Xor4(n \div 16, n % 16)]} : t[0] = 0

\* a ^ b on u8
Xor8(a, b) ==
    16 * Xor4Table[16 * (a \div 16) + (b \div 16)] + Xor4Table[16 * (a % 16) + (b % 16)]

\* a ^ b on 16 bits
BitXor(a, b) == 256 * Xor8(a \div 256, b \div 256) + Xor8(a % 256, b % 256)

\* a ^ b on u32
U32Xor(a, b) == [hi |-> BitXor(a.hi, b.hi), lo |-> BitXor(a.lo, b.lo)]

\* a >> k on u32, k in 1..15
U32Shr(a, k) ==
    [hi |-> a.hi \div (2 ^ k),
     lo |-> (a.hi % (2 ^ k)) * (2 ^ (16 - k)) + a.lo \div (2 ^ k)]

\* u32::to_be_bytes
to_be_bytes(n) ==
    << n.hi \div 256, n.hi % 256, n.lo \div 256, n.lo % 256 >>

\* u32::from_be_bytes
from_be_bytes(b) ==
    [hi |-> b[1] * 256 + b[2], lo |-> b[3] * 256 + b[4]]

\* `n as usize + k > len`: the end of a slice lies past a buffer of len bytes
\* (usize has 64 bits: the sum does not wrap)
EndsPast(n, k, len) ==
    n.hi >= 32768 \/ n.hi * Half + n.lo > len - k

\* `n as usize`, for an n that lies within a buffer
as_usize(n) == n.hi * Half + n.lo

\* value[from..to] of Rust: the bytes at (0-based) from .. to-1
Slice(value, from, to) == SubSeq(value, from + 1, to)

\* The UTF-8 encoding of one code point
Utf8Char(c) ==
    IF c < 128 THEN << c >>
    ELSE IF c < 2048 THEN << 192 + (c \div 64), 128 + (c % 64) >>
    ELSE IF c < 65536
         THEN << 224 + (c \div 4096), 128 + ((c \div 64) % 64), 128 + (c % 64) >>
    ELSE << 240 + (c \div 262144), 128 + ((c \div 4096) % 64),
            128 + ((c \div 64) % 64), 128 + (c % 64) >>

\* str::as_bytes: the UTF-8 bytes of a string
RECURSIVE str_as_bytes(_)
str_as_bytes(s) ==
    IF s = << >> THEN << >> ELSE Utf8Char(Head(s)) \o str_as_bytes(Tail(s))

\* str_len counting chars, not bytes
str_len_chars(s) == Len(s)

\* str::len: the length in bytes
str_len(s) == Len(str_as_bytes(s))

---------------------------------------------------------------------------
(* chunk_type.rs                                                           *)

\* ChunkType::try_from([u8; 4]): the bytes as they are
ChunkType_try_from(value) == [kind |-> "Ok", val |-> value]

\* the closure of from_str: an ASCII letter
from_str_valid_char(c) == (c >= 97 /\ c <= 122) \/ (c >= 65 /\ c <= 90)

\* ChunkType::from_str
from_str(s) ==
    IF str_len(s) # 4
    THEN [kind |-> "ByteLengthError", val |-> str_len(s)]
    ELSE IF ~ (\A i \in 1..Len(str_as_bytes(s)) : from_str_valid_char(str_as_bytes(s)[i]))
    THEN [kind |-> "InvalidCharacter", val |-> 0]
    ELSE [kind |-> "Ok", val |-> str_as_bytes(s)]

\* ChunkType_to_string without the last byte
ChunkType_to_string_short(t) == [i \in 1..(Len(t) - 1) |-> t[i]]

\* Display for ChunkType: each byte as the char of that code point
ChunkType_to_string(t) == [i \in 1..Len(t) |-> t[i]]

\* ChunkType::bytes
bytes(t) == t

is_critical(t) == BitAnd(t[1], 32) # 32

is_public(t) == BitAnd(t[2], 32) # 32

is_reserved_bit_valid(t) == BitAnd(t[3], 32) # 32

\* is_safe_to_copy with the test of the other three flags
is_safe_to_copy_unset(t) == BitAnd(t[4], 32) # 32

is_safe_to_copy(t) == BitAnd(t[4], 32) = 32

\* the closure of is_valid: an ASCII letter
is_valid_valid_char(c) == (c >= 97 /\ c <= 122) \/ (c >= 65 /\ c <= 90)

is_valid(t) ==
    is_reserved_bit_valid(t) /\ (\A i \in 1..4 : is_valid_valid_char(t[i]))

\* the five flags of a chunk type
Flags(t) ==
    [valid |-> is_valid(t), critical |-> is_critical(t), public |-> is_public(t),
     reserved_bit_valid |-> is_reserved_bit_valid(t),
     safe_to_copy |-> is_safe_to_copy(t)]

---------------------------------------------------------------------------
(* chunk.rs                                                                *)

\* CRC_32_ISO_HDLC: the polynomial 0x04C11DB7, reflected (0xEDB88320)
CrcPolyReflected == [hi |-> 60856, lo |-> 33568]

\* CRC_32_ISO_HDLC: init and xorout (0xFFFFFFFF)
CrcInit == [hi |-> 65535, lo |-> 65535]

\* One entry of the reflected table: shift steps of the byte
RECURSIVE CrcShift(_, _)
CrcShift(c, n) ==
    IF n = 0 THEN c
    ELSE CrcShift(IF c.lo % 2 = 1 THEN U32Xor(U32Shr(c, 1), CrcPolyReflected)
                  ELSE U32Shr(c, 1),
                  n - 1)

\* The table, computed once
CrcTable == CHOOSE t \in {[i \in 0..255 |-> CrcShift(as_u32(i), 8)]} : TRUE

\* One byte of Crc::update, reflected: table[(crc ^ b) & 0xFF] ^ (crc >> 8)
CrcStep(crc, b) ==
    U32Xor(CrcTable[BitXor(crc.lo % 256, b)], U32Shr(crc, 8))

\* Crc::update over the bytes, first to last: the crc of the first half is
\* computed, then the rest is fed from it
RECURSIVE CrcUpdate(_, _)
CrcUpdate(crc, data) ==
    IF data = << >> THEN crc
    ELSE IF Len(data) = 1 THEN CrcStep(crc, data[1])
    ELSE LET mid == Len(data) \div 2
         IN  CHOOSE r \in {CrcUpdate(c, SubSeq(data, mid + 1, Len(data))) :
                             c \in {CrcUpdate(crc, SubSeq(data, 1, mid))}} : TRUE

\* Crc::<u32>::new(&crc::CRC_32_ISO_HDLC).checksum(data)
checksum(data) == U32Xor(CrcUpdate(CrcInit, data), CrcInit)

\* Chunk::new
Chunk_new(chunk_type, data) ==
    [chunk_type |-> chunk_type,
     length     |-> as_u32(Len(data)),
     crc        |-> checksum(bytes(chunk_type) \o data),
     data       |-> data]

\* data_as_string without the last byte
data_as_string_short(c) ==
    [kind |-> "Ok", val |-> [i \in 1..(Len(c.data) - 1) |-> c.data[i]]]

\* Chunk::data_as_string: each byte as the char of that code point
data_as_string(c) == [kind |-> "Ok", val |-> [i \in 1..Len(c.data) |-> c.data[i]]]

\* Chunk_as_bytes with the length in little-endian order
Chunk_as_bytes_le(c) ==
    << c.length.lo % 256, c.length.lo \div 256, c.length.hi % 256, c.length.hi \div 256 >>
        \o bytes(c.chunk_type) \o c.data \o to_be_bytes(c.crc)

\* Chunk::as_bytes
Chunk_as_bytes(c) ==
    to_be_bytes(c.length) \o bytes(c.chunk_type) \o c.data \o to_be_bytes(c.crc)

\* Chunk_try_from taking the whole input for one chunk: the crc is its last
\* 4 bytes and covers all before them
Chunk_try_from_whole(value) ==
    IF Len(value) < 12
    THEN [kind |-> "ByteLengthError", val |-> Len(value)]
    ELSE LET data_length == from_be_bytes(Slice(value, 0, 4))
             crc         == from_be_bytes(Slice(value, Len(value) - 4, Len(value)))
             actual_crc  == checksum(Slice(value, 4, Len(value) - 4))
         IN  IF crc # actual_crc
             THEN [kind |-> "MismatchedCrcError", val |-> actual_crc]
             ELSE [kind |-> "Ok",
                   val  |-> [length     |-> data_length,
                             chunk_type |-> Slice(value, 4, 8),
                             data       |-> Slice(value, 8, Len(value) - 4),
                             crc        |-> crc]]

\* Chunk_try_from without the comparison of the two crcs
Chunk_try_from_unchecked(value) ==
    IF Len(value) < 12
    THEN [kind |-> "ByteLengthError", val |-> Len(value)]
    ELSE LET data_length == from_be_bytes(Slice(value, 0, 4))
         IN  IF EndsPast(data_length, 12, Len(value))
             THEN [kind |-> "panic", val |-> 79]
             ELSE [kind |-> "Ok",
                   val  |-> [length     |-> data_length,
                             chunk_type |-> Slice(value, 4, 8),
                             data       |-> Slice(value, 8, as_usize(data_length) + 8),
                             crc        |-> from_be_bytes(
                                 Slice(value, as_usize(data_length) + 8,
                                       as_usize(data_length) + 12))]]

\* Chunk::try_from(&[u8]); a slice that ends past the input panics (val: the line)
Chunk_try_from(value) ==
    IF Len(value) < 12
    THEN [kind |-> "ByteLengthError", val |-> Len(value)]
    ELSE LET data_length == from_be_bytes(Slice(value, 0, 4))
             chunk_type  == ChunkType_try_from(Slice(value, 4, 8)).val
         IN  IF EndsPast(data_length, 8, Len(value))
             THEN [kind |-> "panic", val |-> 78]
             ELSE IF EndsPast(data_length, 12, Len(value))
             THEN [kind |-> "panic", val |-> 79]
             ELSE LET n          == as_usize(data_length)
                      chunk_data == Slice(value, 8, n + 8)
                      crc        == from_be_bytes(Slice(value, n + 8, n + 12))
                      actual_crc == checksum(Slice(value, 4, n + 8))
                  IN  IF crc # actual_crc
                      THEN [kind |-> "MismatchedCrcError", val |-> actual_crc]
                      ELSE [kind |-> "Ok",
                            val  |-> [length     |-> data_length,
                                      chunk_type |-> chunk_type,
                                      data       |-> chunk_data,
                                      crc        |-> crc]]

---------------------------------------------------------------------------
(* Chunk types: from_str and the flags, applied to bounded inputs          *)

\* The longest string handed to from_str, in chars
MaxStrLen == 5

\* 'A', 'z', '1', and two chars of more than one byte: e-acute (2), the euro sign (3)
StrChars == {65, 122, 49, 233, 8364}

\* The strings of at most n chars over StrChars
RECURSIVE StringsUpTo(_)
StringsUpTo(n) ==
    IF n = 0 THEN {<< >>}
    ELSE LET shorter == StringsUpTo(n - 1)
         IN  shorter \cup {Append(s, c) : s \in {x \in shorter : Len(x) = n - 1},
                                           c \in StrChars}

\* The bytes a raw chunk type is built from: "RuSt", '1', and the bytes at and
\* around the ends of 'A'..'Z' and 'a'..'z'
TypeByteVals == {82, 117, 83, 116, 49, 64, 65, 90, 91, 96, 97, 122, 123}

NoRet == [kind |-> "none"]

\* The input is drawn at the start: a string for from_str, or 4 raw bytes
InitType ==
    /\ op = "init"
    /\ arg \in [of : {"str"}, val : StringsUpTo(MaxStrLen)]
               \cup [of : {"raw"}, val : [1..4 -> TypeByteVals]]
    /\ ret = NoRet
    /\ png = << >>
    /\ files = << >>

\* ChunkType::from_str(s)
DoFromStr ==
    /\ op = "init"
    /\ arg.of = "str"
    /\ op' = "from_str"
    /\ ret' = from_str(arg.val)
    /\ UNCHANGED <<arg, png, files>>

\* ChunkType::try_from(b), then the five flags of the type
DoFlags ==
    /\ op = "init"
    /\ arg.of = "raw"
    /\ op' = "flags"
    /\ ret' = [kind  |-> ChunkType_try_from(arg.val).kind,
               val   |-> bytes(ChunkType_try_from(arg.val).val),
               flags |-> Flags(ChunkType_try_from(arg.val).val)]
    /\ UNCHANGED <<arg, png, files>>

NextType == DoFromStr \/ DoFlags

SpecType == InitType /\ [][NextType]_vars

\* an ASCII letter, A-Z or a-z
AsciiLetter(b) == b \in (65..90) \cup (97..122)

\* bit 5 (0x20) of a byte is set
Bit5(b) == (b \div 32) % 2 = 1

(* C8, as stated: from_str(s) fails with the invalid-length error if s is not
   exactly 4 characters; otherwise with the invalid-character error if any byte
   of s is not an ASCII letter; otherwise it succeeds with the 4 bytes of s. *)
C8_FromStrByChars ==
    op = "from_str" =>
        LET b == str_as_bytes(arg.val)
        IN  IF Len(arg.val) # 4 THEN ret.kind = "ByteLengthError"
            ELSE IF \E i \in 1..Len(b) : ~ AsciiLetter(b[i])
                 THEN ret.kind = "InvalidCharacter"
            ELSE ret.kind = "Ok" /\ ret.val = b

(* C8, amended: from_str(s) fails with the invalid-length error if the UTF-8
   encoding of s is not exactly 4 bytes long; otherwise with the
   invalid-character error if any of these bytes is not an ASCII letter;
   otherwise it succeeds with a ChunkType whose bytes are the 4 bytes of s. *)
C8_FromStrByBytes ==
    op = "from_str" =>
        LET b == str_as_bytes(arg.val)
        IN  IF Len(b) # 4 THEN ret.kind = "ByteLengthError" /\ ret.val = Len(b)
            ELSE IF \E i \in 1..4 : ~ AsciiLetter(b[i])
                 THEN ret.kind = "InvalidCharacter"
            ELSE ret.kind = "Ok" /\ bytes(ret.val) = b /\ Len(arg.val) = 4

\* from_str on a string of 3 chars and 4 bytes: the invalid-character error
C8_Witness ==
    /\ op = "from_str"
    /\ Len(arg.val) = 3
    /\ Len(str_as_bytes(arg.val)) = 4
    /\ ret.kind = "InvalidCharacter"

(* C9: for every 4-byte ChunkType, also one from_bytes did not validate:
   is_critical, is_public and is_reserved_bit_valid are true iff bit 5 of byte
   0, 1 and 2 is clear, is_safe_to_copy iff bit 5 of byte 3 is set, and is_valid
   iff all 4 bytes are ASCII letters and is_reserved_bit_valid holds. *)
C9_Flags ==
    op = "flags" =>
        /\ ret.val = arg.val
        /\ ret.flags.critical = ~ Bit5(arg.val[1])
        /\ ret.flags.public = ~ Bit5(arg.val[2])
        /\ ret.flags.reserved_bit_valid = ~ Bit5(arg.val[3])
        /\ ret.flags.safe_to_copy = Bit5(arg.val[4])
        /\ ret.flags.valid =
              ((\A i \in 1..4 : AsciiLetter(arg.val[i])) /\ ret.flags.reserved_bit_valid)

\* the flags of "RuSt", as the tests give them; "Rust" and a non-letter type
\* are reached too
C9_Witness ==
    /\ op = "flags"
    /\ arg.val = <<82, 117, 83, 116>>
    /\ ret.flags = [valid |-> TRUE, critical |-> TRUE, public |-> FALSE,
                    reserved_bit_valid |-> TRUE, safe_to_copy |-> TRUE]

---------------------------------------------------------------------------
(* Chunks: new, as_bytes and try_from, applied to bounded inputs           *)

\* The longest payload of a built chunk, in bytes (the tests' message aside)
MaxDataLen == 2

\* The bytes payloads are built from
DataByteVals == {0, 104, 255}

\* "RuSt", and a type no validation would accept
ChunkTypeVals == {<<82, 117, 83, 116>>, <<0, 255, 49, 10>>}

\* "This is where your secret message will be!", the payload of the tests
TestMessage ==
    <<84, 104, 105, 115, 32, 105, 115, 32, 119, 104, 101, 114, 101, 32, 121, 111,
      117, 114, 32, 115, 101, 99, 114, 101, 116, 32, 109, 101, 115, 115, 97, 103,
      101, 32, 119, 105, 108, 108, 32, 98, 101, 33>>

\* The byte buffers of at most n bytes over DataByteVals
RECURSIVE BuffersUpTo(_)
BuffersUpTo(n) ==
    IF n = 0 THEN {<< >>}
    ELSE LET shorter == BuffersUpTo(n - 1)
         IN  shorter \cup {Append(d, b) : d \in {x \in shorter : Len(x) = n - 1},
                                           b \in DataByteVals}

\* What Chunk::new is called with
NewInputs ==
    [chunk_type : ChunkTypeVals, data : BuffersUpTo(MaxDataLen)]
        \cup {[chunk_type |-> <<82, 117, 83, 116>>, data |-> TestMessage]}

\* b with its i-th byte replaced by v
WithByte(b, i, v) == [b EXCEPT ![i] = v]

\* What Chunk::try_from is called with: the serialized chunks, cut short, with
\* one byte replaced, and followed by more bytes
TryFromInputs ==
    LET good == {Chunk_as_bytes(Chunk_new(n.chunk_type, n.data)) : n \in NewInputs}
    IN  good
        \cup UNION {{SubSeq(b, 1, k) : k \in 0..(Len(b) - 1)} : b \in good}
        \cup UNION {{WithByte(b, i, v) : i \in 1..Len(b), v \in {0, 1, 255}} : b \in good}
        \cup UNION {{b \o e : e \in {<<0>>, <<0, 0, 0, 0>>, <<255, 1, 2, 3, 4>>}} : b \in good}

InitChunk ==
    /\ op = "init"
    /\ arg \in [of : {"new"}, val : NewInputs]
               \cup [of : {"bytes"}, val : TryFromInputs]
    /\ ret = NoRet
    /\ png = << >>
    /\ files = << >>

\* Chunk::new(chunk_type, data)
DoNew ==
    /\ op = "init"
    /\ arg.of = "new"
    /\ op' = "new"
    /\ ret' = [kind |-> "Ok", val |-> Chunk_new(arg.val.chunk_type, arg.val.data)]
    /\ UNCHANGED <<arg, png, files>>

\* Chunk::try_from(c.as_bytes()) of the chunk c that Chunk::new built
DoReparse ==
    /\ op = "new"
    /\ op' = "reparse"
    /\ arg' = [of |-> "chunk", val |-> ret.val, bytes |-> Chunk_as_bytes(ret.val)]
    /\ ret' = Chunk_try_from(Chunk_as_bytes(ret.val))
    /\ UNCHANGED <<png, files>>

\* Chunk::try_from(value)
DoTryFrom ==
    /\ op = "init"
    /\ arg.of = "bytes"
    /\ op' = "try_from"
    /\ ret' = Chunk_try_from(arg.val)
    /\ UNCHANGED <<arg, png, files>>

NextChunk == DoNew \/ DoReparse \/ DoTryFrom

SpecChunk == InitChunk /\ [][NextChunk]_vars

\* The value of 4 big-endian bytes, when it is below 2^31 (else -1)
BeValue(b) ==
    IF b[1] >= 128 THEN -1 ELSE ((b[1] * 256 + b[2]) * 256 + b[3]) * 256 + b[4]

(* C1: for every Chunk c built by Chunk::new(type, data), parsing the bytes of
   c.as_bytes() succeeds and yields a chunk with the same length, type, data
   and crc as c. *)
C1_RoundTrip ==
    op = "reparse" =>
        /\ Len(arg.bytes) = 12 + Len(arg.val.data)
        /\ ret.kind = "Ok"
        /\ ret.val.length = arg.val.length
        /\ ret.val.chunk_type = arg.val.chunk_type
        /\ ret.val.data = arg.val.data
        /\ ret.val.crc = arg.val.crc

\* a chunk with a payload, of a type that is no valid chunk type, parsed back
C1_Witness ==
    /\ op = "reparse"
    /\ ret.kind = "Ok"
    /\ ret.val.chunk_type = <<0, 255, 49, 10>>
    /\ Len(ret.val.data) = MaxDataLen

(* C2: Chunk parse never aborts: for every input, also one of at least 12
   bytes whose declared length N makes 8 + N + 4 exceed the input length, it
   returns a Chunk or an error value and never terminates the process. *)
C2_ParseNeverAborts ==
    op = "try_from" => ret.kind \in {"Ok", "ByteLengthError", "MismatchedCrcError"}

(* C3: every Chunk that exists, returned by Chunk::new or by a successful
   parse, has crc() equal to CRC-32/ISO-HDLC over its 4 type bytes followed by
   its payload (2882656334 = 0xABD1D84E for the tests' chunk); a parse whose
   declared CRC differs from the recomputed one returns MismatchedCrcError and
   produces no Chunk. *)
C3_CrcConsistent ==
    /\ (op \in {"new", "reparse", "try_from"} /\ ret.kind = "Ok") =>
          /\ ret.val.crc = checksum(ret.val.chunk_type \o ret.val.data)
          /\ (ret.val.chunk_type = <<82, 117, 83, 116>> /\ ret.val.data = TestMessage)
                => ret.val.crc = [hi |-> 43985, lo |-> 55374]
    /\ op = "try_from" =>
          LET v == arg.val
              n == IF Len(v) >= 12 THEN BeValue(SubSeq(v, 1, 4)) ELSE -1
          IN  (n >= 0 /\ n + 12 <= Len(v)
               /\ to_be_bytes(checksum(SubSeq(v, 5, 8 + n))) # SubSeq(v, 9 + n, 12 + n))
                  => ret.kind = "MismatchedCrcError"

\* a parse of a well-formed buffer whose crc field was changed
C3_Witness ==
    /\ op = "try_from"
    /\ ret.kind = "MismatchedCrcError"
    /\ WithByte(arg.val, Len(arg.val), 78) \in
          {Chunk_as_bytes(Chunk_new(<<82, 117, 83, 116>>, TestMessage))}

---------------------------------------------------------------------------
(* png.rs: the container, an ordered sequence of chunks behind a signature *)

\* Png::STANDARD_HEADER, the 8 signature bytes
STANDARD_HEADER == <<137, 80, 78, 71, 13, 10, 26, 10>>

\* The chunks of the bytes after the signature: Chunk::try_from on what is
\* left, the cursor moved on by 12 + length, until nothing is left
RECURSIVE ParseChunks(_, _)
ParseChunks(rest, chunks) ==
    IF rest = << >> THEN [kind |-> "Ok", val |-> chunks]
    ELSE CHOOSE r \in
            {IF c.kind # "Ok" THEN c
             ELSE ParseChunks(SubSeq(rest, 12 + as_usize(c.val.length) + 1, Len(rest)),
                              Append(chunks, c.val)) :
                c \in {Chunk_try_from(rest)}} : TRUE

\* Png::try_from(&[u8])
Png_try_from(value) ==
    IF Len(value) < 8 \/ SubSeq(value, 1, 8) # STANDARD_HEADER
    THEN [kind |-> "InvalidSignature", val |-> 0]
    ELSE ParseChunks(SubSeq(value, 9, Len(value)), << >>)

\* the bytes of the chunks, in order
RECURSIVE ChunksBytes(_)
ChunksBytes(chunks) ==
    IF chunks = << >> THEN << >>
    ELSE Chunk_as_bytes(Head(chunks)) \o ChunksBytes(Tail(chunks))

\* Png::as_bytes
Png_as_bytes(chunks) == STANDARD_HEADER \o ChunksBytes(chunks)

\* Png::append_chunk
append_chunk(chunks, chunk) == Append(chunks, chunk)

\* The places of the chunks whose type, as a string, is chunk_type
Matches(chunks, chunk_type) ==
    {i \in 1..Len(chunks) : ChunkType_to_string(chunks[i].chunk_type) = chunk_type}

\* the least of a non-empty set of numbers
Least(S) == CHOOSE i \in S : \A j \in S : i <= j

\* Png::remove_chunk: the first match is taken out and returned
remove_chunk(chunks, chunk_type) ==
    IF Matches(chunks, chunk_type) = {}
    THEN [kind |-> "ChunkNotFound", png |-> chunks]
    ELSE LET i == Least(Matches(chunks, chunk_type))
         IN  [kind |-> "Ok", val |-> chunks[i],
              png  |-> SubSeq(chunks, 1, i - 1) \o SubSeq(chunks, i + 1, Len(chunks))]

\* Png::chunk_by_type: the first match, or none
chunk_by_type(chunks, chunk_type) ==
    IF Matches(chunks, chunk_type) = {}
    THEN [kind |-> "None"]
    ELSE [kind |-> "Some", val |-> chunks[Least(Matches(chunks, chunk_type))]]

---------------------------------------------------------------------------
(* The container's operations, from a parsed image on                      *)

\* The most chunks a container is let grow to
MaxChunks == 4

\* "IHDR", "IEND", "RuSt", "ruSt" as strings; "RySt" with y-diaeresis (U+00FF),
\* the string form of the type bytes 82, 255, 83, 116
StrIHDR == <<73, 72, 68, 82>>
StrIEND == <<73, 69, 78, 68>>
StrRuSt == <<82, 117, 83, 116>>
StrruSt == <<114, 117, 83, 116>>
StrRySt == <<82, 255, 83, 116>>

\* The header of a 1 x 1 image and the terminal chunk
ChunkIHDR == Chunk_new(StrIHDR, <<0, 0, 0, 1, 0, 0, 0, 1, 8, 2, 0, 0, 0>>)
ChunkIEND == Chunk_new(StrIEND, << >>)

\* The image files: header first, terminal chunk last
ImageFiles ==
    {Png_as_bytes(<<ChunkIHDR, ChunkIEND>>),
     Png_as_bytes(<<ChunkIHDR, Chunk_new(StrruSt, <<120>>), ChunkIEND>>),
     Png_as_bytes(<<ChunkIHDR,
                    Chunk_try_from(Chunk_as_bytes(Chunk_new(StrRySt, <<120>>))).val,
                    ChunkIEND>>)}

\* The chunk types and messages the encode step is given: "h", and e-acute
EncodeTypes == {StrRuSt, StrruSt}
EncodeMessages == {<<104>>, <<233>>}

\* The chunk types looked up and removed
LookupTypes == {StrIHDR, StrIEND, StrRuSt, StrruSt, StrRySt}

InitPng ==
    /\ op = "try_from"
    /\ arg \in [bytes : ImageFiles]
    /\ ret = Png_try_from(arg.bytes)
    /\ png = IF ret.kind = "Ok" THEN ret.val ELSE << >>
    /\ files = << >>

\* The encode step: png.append_chunk(Chunk::new(ChunkType::from_str(t), bytes of m))
DoAppendChunk ==
    \E t \in EncodeTypes, m \in EncodeMessages :
        /\ Len(png) < MaxChunks
        /\ op' = "append_chunk"
        /\ arg' = [chunk_type |-> t, message |-> m, before |-> png]
        /\ png' = append_chunk(png, Chunk_new(from_str(t).val, str_as_bytes(m)))
        /\ ret' = NoRet
        /\ UNCHANGED files

\* The decode step: png.chunk_by_type(t), then data_as_string of the chunk
DoChunkByType ==
    \E t \in LookupTypes :
        /\ op' = "chunk_by_type"
        /\ arg' = [chunk_type |-> t]
        /\ ret' = IF chunk_by_type(png, t).kind = "Some"
                  THEN [kind |-> "Some", val |-> chunk_by_type(png, t).val,
                        string |-> data_as_string(chunk_by_type(png, t).val).val]
                  ELSE [kind |-> "None"]
        /\ UNCHANGED <<png, files>>

\* png.remove_chunk(t)
DoRemoveChunk ==
    \E t \in LookupTypes :
        /\ op' = "remove_chunk"
        /\ arg' = [chunk_type |-> t, before |-> png]
        /\ png' = remove_chunk(png, t).png
        /\ ret' = IF remove_chunk(png, t).kind = "Ok"
                  THEN [kind |-> "Ok", val |-> remove_chunk(png, t).val]
                  ELSE [kind |-> "ChunkNotFound"]
        /\ UNCHANGED files

\* Png::try_from(png.as_bytes())
DoPngReparse ==
    /\ op # "reparse"
    /\ op' = "reparse"
    /\ arg' = [bytes |-> Png_as_bytes(png)]
    /\ ret' = Png_try_from(Png_as_bytes(png))
    /\ UNCHANGED <<png, files>>

NextPng == DoAppendChunk \/ DoChunkByType \/ DoRemoveChunk \/ DoPngReparse

SpecPng == InitPng /\ [][NextPng]_vars

\* The types of the chunks, in order
TypesOf(chunks) == [i \in 1..Len(chunks) |-> chunks[i].chunk_type]

\* A string of ASCII chars only
IsAscii(m) == \A i \in 1..Len(m) : m[i] < 128

(* C5, as stated: for any parsed container, any 4-letter chunk type t and any
   ASCII message m: after append_chunk(Chunk::new(t, bytes of m)), the lookup
   chunk_by_type(t) followed by data_as_string() returns exactly m, whatever
   chunks the container already held. *)
C5_DecodeReturnsMessage ==
    [][(op = "append_chunk" /\ op' = "chunk_by_type"
        /\ arg'.chunk_type = arg.chunk_type /\ IsAscii(arg.message))
          => (ret'.kind = "Some" /\ ret'.string = arg.message)]_vars

(* C5, amended: for any parsed container holding no chunk of type t, any
   4-letter chunk type t and any ASCII message m: after
   append_chunk(Chunk::new(t, bytes of m)), chunk_by_type(t) followed by
   data_as_string() returns exactly m; when the container already holds chunks
   of type t, the lookup returns the first of them, not the appended one. *)
C5_DecodeFirstOfType ==
    [][(op = "append_chunk" /\ op' = "chunk_by_type"
        /\ arg'.chunk_type = arg.chunk_type /\ IsAscii(arg.message))
          => /\ ret'.kind = "Some"
             /\ (\A i \in 1..Len(arg.before) :
                     arg.before[i].chunk_type # arg.chunk_type)
                   => ret'.string = arg.message
             /\ \A i \in 1..Len(arg.before) :
                   (/\ arg.before[i].chunk_type = arg.chunk_type
                    /\ \A j \in 1..(i - 1) :
                          arg.before[j].chunk_type # arg.chunk_type)
                      => ret'.val = arg.before[i]]_vars

\* the lookup found the chunk that was appended after the terminal chunk, and
\* gives its message, "h"
C5_Witness ==
    /\ op = "chunk_by_type"
    /\ ret.kind = "Some"
    /\ ret.string = <<104>>
    /\ Len(png) >= 3
    /\ ret.val = png[Len(png)]
    /\ png[Len(png) - 1].chunk_type = StrIEND

(* C7: remove_chunk(t) removes and returns the first chunk whose type string
   equals t, leaving the other chunks present and in their order; if no chunk
   has type t it returns a chunk-not-found error and the sequence is unchanged.
   On [IHDR, ruSt, IEND], remove_chunk("ruSt") yields [IHDR, IEND], on which a
   second remove_chunk("ruSt") fails with not-found. *)
C7_RemoveFirstMatch ==
    op = "remove_chunk" =>
        LET before == arg.before
            hits   == {i \in 1..Len(before) : before[i].chunk_type = arg.chunk_type}
        IN  /\ hits = {} => (ret.kind = "ChunkNotFound" /\ png = before)
            /\ \A i \in hits :
                  (\A j \in hits : i <= j) =>
                      /\ ret.kind = "Ok"
                      /\ ret.val = before[i]
                      /\ Len(png) = Len(before) - 1
                      /\ \A k \in 1..Len(png) :
                            png[k] = IF k < i THEN before[k] ELSE before[k + 1]
            /\ (TypesOf(before) = <<StrIHDR, StrruSt, StrIEND>>
                /\ arg.chunk_type = StrruSt) => TypesOf(png) = <<StrIHDR, StrIEND>>
            /\ (TypesOf(before) = <<StrIHDR, StrIEND>> /\ arg.chunk_type = StrruSt)
                  => ret.kind = "ChunkNotFound"

\* the first of two chunks of one type was removed, the second is still there
C7_Witness ==
    /\ op = "remove_chunk"
    /\ ret.kind = "Ok"
    /\ TypesOf(arg.before) = <<StrIHDR, StrruSt, StrIEND, StrruSt>>
    /\ arg.chunk_type = StrruSt
    /\ ret.val = arg.before[2]
    /\ png = <<arg.before[1], arg.before[3], arg.before[4]>>

\* Where chunk i starts in the bytes of a container (0-based)
RECURSIVE OffsetOf(_, _)
OffsetOf(chunks, i) ==
    IF i = 1 THEN 8 ELSE OffsetOf(chunks, i - 1) + 12 + Len(chunks[i - 1].data)

(* C10: for any container p of chunks built by Chunk::new, the container parse
   of p.as_bytes() terminates and yields the same chunks in the same order;
   each Chunk parse reads only its own 12 + N bytes and is unaffected by the
   bytes of the chunks that follow it. *)
C10_PngRoundTrip ==
    op = "reparse" =>
        /\ ret.kind = "Ok"
        /\ ret.val = png
        /\ \A i \in 1..Len(png) :
              LET from == OffsetOf(png, i)
                  own  == SubSeq(arg.bytes, from + 1, from + 12 + Len(png[i].data))
              IN  /\ own = Chunk_as_bytes(png[i])
                  /\ Chunk_try_from(SubSeq(arg.bytes, from + 1, Len(arg.bytes))).kind = "Ok"
                  /\ Chunk_try_from(SubSeq(arg.bytes, from + 1, Len(arg.bytes))).val
                        = png[i]

\* a container of four chunks, one appended after the terminal chunk, parsed back
C10_Witness ==
    /\ op = "reparse"
    /\ ret.kind = "Ok"
    /\ Len(ret.val) = 4
    /\ ret.val[3].chunk_type = StrIEND
    /\ Len(arg.bytes) > 8 + 12 * 4

---------------------------------------------------------------------------
(* main.rs: the four commands, over a file system                          *)

Paths == {"in.png", "out.png"}

NoFile == [exists |-> FALSE, data |-> << >>]

NoOutput == "none"

\* The chunk types ("RuSt", and "Ru1t", which from_str refuses) and the message
\* the encode command is given
CliEncodeTypes == {StrRuSt, <<82, 117, 49, 116>>}
CliMessages == {<<104>>}

\* The chunk types the decode and remove commands are given
CliLookupTypes == {StrRuSt, StrruSt, StrIEND}

\* a command that panicked, at the line of main.rs: no container, no file written
Panicked(fs, line) ==
    [ret |-> [kind |-> "panic", val |-> line], png |-> << >>, files |-> fs]

\* Write::write_all at the cursor at: the bytes from there on are overwritten,
\* the file grows as needed
WriteAt(content, at, data) ==
    SubSeq(content, 1, at) \o data \o SubSeq(content, at + Len(data) + 1, Len(content))

\* encode_msg: the image is opened for reading and writing and read to its end,
\* which leaves the cursor there; with no output file the new bytes are written
\* through the same handle
encode_msg(fs, image_path, chunk_type, message, output_file) ==
    IF ~ fs[image_path].exists THEN Panicked(fs, 38)
    ELSE LET content == fs[image_path].data
             cursor  == Len(content)
             parsed  == Png_try_from(content)
         IN  IF parsed.kind # "Ok" THEN Panicked(fs, 41)
             ELSE IF from_str(chunk_type).kind # "Ok" THEN Panicked(fs, 43)
             ELSE LET after == append_chunk(parsed.val,
                                   Chunk_new(from_str(chunk_type).val,
                                             str_as_bytes(message)))
                  IN  [ret |-> [kind |-> "Ok"],
                       png |-> after,
                       files |->
                          IF output_file # NoOutput
                          THEN [fs EXCEPT ![output_file] =
                                   [exists |-> TRUE, data |-> Png_as_bytes(after)]]
                          ELSE [fs EXCEPT ![image_path] =
                                   [exists |-> TRUE,
                                    data |-> WriteAt(content, cursor,
                                                     Png_as_bytes(after))]]]

\* decode_msg: the message of the first chunk of the type, or that there is none
decode_msg(fs, image_path, chunk_type) ==
    IF ~ fs[image_path].exists THEN Panicked(fs, 55)
    ELSE LET parsed == Png_try_from(fs[image_path].data)
         IN  IF parsed.kind # "Ok" THEN Panicked(fs, 57)
             ELSE [ret |-> IF chunk_by_type(parsed.val, chunk_type).kind = "Some"
                           THEN [kind |-> "Ok", found |-> TRUE,
                                 message |-> data_as_string(
                                     chunk_by_type(parsed.val, chunk_type).val).val]
                           ELSE [kind |-> "Ok", found |-> FALSE],
                   png |-> parsed.val,
                   files |-> fs]

\* remove: the chunk is taken out of the container in memory; no file is written
remove(fs, image_path, chunk_type) ==
    IF ~ fs[image_path].exists THEN Panicked(fs, 68)
    ELSE LET parsed == Png_try_from(fs[image_path].data)
         IN  IF parsed.kind # "Ok" THEN Panicked(fs, 70)
             ELSE IF remove_chunk(parsed.val, chunk_type).kind # "Ok"
             THEN Panicked(fs, 72)
             ELSE [ret |-> [kind |-> "Ok",
                            removed |-> ChunkType_to_string(
                                remove_chunk(parsed.val, chunk_type).val.chunk_type)],
                   png |-> remove_chunk(parsed.val, chunk_type).png,
                   files |-> fs]

\* print: the container is parsed and shown
print(fs, file_path) ==
    IF ~ fs[file_path].exists THEN Panicked(fs, 79)
    ELSE LET parsed == Png_try_from(fs[file_path].data)
         IN  IF parsed.kind # "Ok" THEN Panicked(fs, 81)
             ELSE [ret |-> [kind |-> "Ok"], png |-> parsed.val, files |-> fs]

\* What a command leaves behind
Done(name, params, r) ==
    /\ op' = name
    /\ arg' = params
    /\ ret' = r.ret
    /\ png' = r.png
    /\ files' = r.files

\* At the start in.png is a well-formed image and out.png does not exist
Init ==
    /\ op = "start"
    /\ arg = << >>
    /\ ret = NoRet
    /\ png = << >>
    /\ files \in {[p \in Paths |-> IF p = "in.png" THEN [exists |-> TRUE, data |-> b]
                                   ELSE NoFile] : b \in ImageFiles}

\* The number of chunks of a file that parses, else 0
ChunksIn(file) ==
    IF file.exists /\ Png_try_from(file.data).kind = "Ok"
    THEN Len(Png_try_from(file.data).val) ELSE 0

EncodeCmd ==
    \E image_path \in Paths, chunk_type \in CliEncodeTypes, message \in CliMessages,
       output_file \in Paths \cup {NoOutput} :
        /\ ChunksIn(files[image_path]) < MaxChunks
        /\ Done("encode",
                [image_path |-> image_path, chunk_type |-> chunk_type,
                 message |-> message, output_file |-> output_file],
                encode_msg(files, image_path, chunk_type, message, output_file))

DecodeCmd ==
    \E image_path \in Paths, chunk_type \in CliLookupTypes :
        Done("decode", [image_path |-> image_path, chunk_type |-> chunk_type],
             decode_msg(files, image_path, chunk_type))

RemoveCmd ==
    \E image_path \in Paths, chunk_type \in CliLookupTypes :
        Done("remove", [image_path |-> image_path, chunk_type |-> chunk_type],
             remove(files, image_path, chunk_type))

PrintCmd ==
    \E image_path \in Paths :
        Done("print", [image_path |-> image_path], print(files, image_path))

Next == EncodeCmd \/ DecodeCmd \/ RemoveCmd \/ PrintCmd

Spec == Init /\ [][Next]_vars

(* C4: in every container state reachable from a successful container parse
   of a well-formed image followed by any sequence of append_chunk and
   remove_chunk calls, as the encode and remove commands issue them, the first
   chunk's type is IHDR and the last chunk's type is IEND. *)
C4_HeaderFirstTerminalLast ==
    (op \in {"encode", "remove"} /\ ret.kind = "Ok") =>
        /\ png # << >>
        /\ png[1].chunk_type = StrIHDR
        /\ png[Len(png)].chunk_type = StrIEND

(* C6: when the encode command is run with no output path, after it completes
   the input file's contents are exactly the serialization of the parsed
   container with the new chunk appended: no bytes of the previous contents
   are left before or after it. *)
C6_EncodeOverwritesInput ==
    (op = "encode" /\ arg.output_file = NoOutput /\ ret.kind = "Ok") =>
        files[arg.image_path].data = Png_as_bytes(png)

====
